---- MODULE Spec2Model ----
\* Route optimiser (optimizador-rutas-puno): the /api/v2/optimizar-ruta handler
\* of main.py and solve_vrp of solver.py, with the itinerary formatting helpers.
\* One request is followed from the handler's entry to its HTTP response.
EXTENDS Integers, Sequences, FiniteSets, TLC

VARIABLES
    pc,            \* position of the request inside optimizar_ruta / solve_vrp
    paradas,       \* paradas_totales: the stops handed to solve_vrp, depot first
    traffic,       \* tenths of a second the provider adds to every "uphill" leg
    data,          \* solve_vrp's data dict: time_windows, service_times, time_matrix
    routing,       \* the routing model with its Time dimension
    steps,         \* the steps of solve_vrp that have run, in order
    solution,      \* the routing solution: visiting order and cumul values
    index,         \* position of the extraction loop in the route
    last_departure_time_seconds,
    itinerary,     \* the stops list under construction
    total_duration_seconds,
    raised,        \* the exception that left solve_vrp ("none" when it returned)
    cause,         \* what actually went wrong: none / provider / infeasible / internal
    response,      \* the HTTP response of the handler
    arg,           \* argument of the formatting helper under test
    out            \* its result

vars == <<pc, paradas, traffic, data, routing, steps, solution, index,
          last_departure_time_seconds, itinerary, total_duration_seconds,
          raised, cause, response, arg, out>>

-----------------------------------------------------------------------------
\* Bounds of the model

\* most destination stops in one request (the depot comes on top)
MaxStops == 2

\* largest number of seconds handed to the formatting helpers on their own
MaxSeconds == 90000

-----------------------------------------------------------------------------
\* Program constants

\* slack_max of the Time dimension: the most waiting allowed on one leg
SlackMax == 900
\* capacity of the Time dimension: one day
Horizon == 86400

Max(a, b) == IF a >= b THEN a ELSE b
Min(a, b) == IF a <= b THEN a ELSE b

-----------------------------------------------------------------------------
\* Stops (models.ParadaBase) and the values a request may carry.
\* Python lists are sequences here: list[i] is seq[i + 1].

Time(h, m) == [hour |-> h, minute |-> m, second |-> 0]

\* datetime.time -> seconds since midnight
time_to_seconds(t) == t.hour * 3600 + t.minute * 60 + t.second

\* the synthetic start stop built by the handler
parada_inicio ==
    [id |-> 0, lng |-> 0,
     ventana_inicio |-> Time(0, 1), ventana_fin |-> Time(23, 59),
     tiempo_servicio_min |-> 0]

\* (ventana_inicio, ventana_fin) pairs stored stops may have: nothing checks
\* that a window opens before it closes
Ventanas ==
    { <<Time(8, 0),  Time(8, 5)>>,
      <<Time(9, 0),  Time(12, 0)>>,
      <<Time(9, 30), Time(10, 0)>>,
      <<Time(10, 0), Time(9, 30)>>,
      <<Time(23, 30), Time(23, 59)>> }

\* tiempo_servicio_min is any int: nothing checks its sign
TiemposServicio == {-30, 0, 30}

\* positions of the stops along the road (the depot is at 0)
Coordenadas == {1, 2}

\* tenths of a second of traffic delay the provider may report on uphill legs
Traficos == {0, 3007}

Parada(k, x, w, t) ==
    [id |-> k, lng |-> x, ventana_inicio |-> w[1], ventana_fin |-> w[2],
     tiempo_servicio_min |-> t]

\* the stops of the user the request names, as the database returns them
StoredParadas(n) ==
    { [k \in 1..n |-> Parada(k, x[k], w[k], t[k])] :
        x \in [1..n -> Coordenadas], w \in [1..n -> Ventanas],
        t \in [1..n -> TiemposServicio] }

-----------------------------------------------------------------------------
\* The travel-time matrix provider (Mapbox Matrix API) and get_real_time_matrix

\* what the HTTP call can come back with
ProviderReplies == {"ok", "http_error", "not_ok", "malformed", "timeout"}

Abs(a) == IF a >= 0 THEN a ELSE -a

\* durations of an 'Ok' payload, in tenths of a second (the payload carries
\* floats): 600 s per unit of distance, plus the traffic delay on uphill legs
Durations(ps, tr) ==
    [i \in 1..Len(ps) |->
        [j \in 1..Len(ps) |->
            6000 * Abs(ps[i].lng - ps[j].lng)
              + (IF ps[j].lng > ps[i].lng THEN tr ELSE 0)]]

\* int(t) of a non-negative float given in tenths
IntOfTenths(t) == t \div 10

\* mutant: a failed call is reported as "no route"
get_real_time_matrix_NoRoute(ps, tr, reply) ==
    IF reply = "ok"
    THEN [raised |-> "none",
          matrix |-> [i \in 1..Len(ps) |->
                        [j \in 1..Len(ps) |-> IntOfTenths(Durations(ps, tr)[i][j])]]]
    ELSE [raised |-> "NoSolutionError", matrix |-> <<>>]

\* get_real_time_matrix: the integer matrix, or the exception it raises.
\* raise_for_status -> HTTPStatusError, re-raised as a plain Exception;
\* code != 'Ok' -> Exception; a payload without 'durations' or with a null
\* entry -> KeyError / TypeError; a timeout -> httpx.TimeoutException.
\* All of them leave through "except Exception: raise".
get_real_time_matrix(ps, tr, reply) ==
    CASE reply = "ok" ->
           [raised |-> "none",
            matrix |-> [i \in 1..Len(ps) |->
                          [j \in 1..Len(ps) |->
                              IntOfTenths(Durations(ps, tr)[i][j])]]]
      [] reply = "http_error" -> [raised |-> "Exception", matrix |-> <<>>]
      [] reply = "not_ok"     -> [raised |-> "Exception", matrix |-> <<>>]
      [] reply = "malformed"  -> [raised |-> "TypeError", matrix |-> <<>>]
      [] reply = "timeout"    -> [raised |-> "TimeoutException", matrix |-> <<>>]

-----------------------------------------------------------------------------
\* The routing model of solve_vrp (sections 3 to 5) and its solutions

\* time_callback: travel time of the arc plus the service time of its origin
time_callback(d, from_node, to_node) ==
    d.time_matrix[from_node + 1][to_node + 1] + d.service_times[from_node + 1]

\* mutant: only the opening of the window is set on the cumul variable
SetRanges_NoEnd(d) ==
    [node \in 0..(Len(d.time_windows) - 1) |->
        <<d.time_windows[node + 1][1], Horizon>>]

\* CumulVar(index).SetRange(time_window[0], time_window[1]) for every location
SetRanges(d) ==
    [node \in 0..(Len(d.time_windows) - 1) |-> d.time_windows[node + 1]]

\* mutant: the dimension is added with the horizon as its slack limit
BuildRouting_FreeSlack(d) ==
    [nodes     |-> Len(d.time_matrix),
     depot     |-> 0,
     slack_max |-> Horizon,
     capacity  |-> Horizon,
     ranges    |-> SetRanges(d)]

\* RoutingIndexManager + RoutingModel + AddDimension + the SetRange loop
BuildRouting(d) ==
    [nodes     |-> Len(d.time_matrix),
     depot     |-> 0,
     slack_max |-> SlackMax,
     capacity  |-> Horizon,
     ranges    |-> SetRanges(d)]

\* mutant: nodes are not forced to be visited once each
Routes_Repeating(r) ==
    { o \in [1..r.nodes -> 0..(r.nodes - 1)] : o[1] = r.depot }

\* the routes of the single vehicle: every node once, from the depot; the
\* vehicle ends at the depot again (the end index, position Len(o) + 1)
Routes(r) ==
    { [k \in 1..r.nodes |-> IF k = 1 THEN r.depot ELSE p[k - 1]] :
        p \in { q \in [1..(r.nodes - 1) -> (0..(r.nodes - 1)) \ {r.depot}] :
                   \A a, b \in 1..(r.nodes - 1) : a # b => q[a] # q[b] } }

NodeAt(r, o, k) == IF k <= Len(o) THEN o[k] ELSE r.depot

\* transit of the leg leaving position k
Transit(d, r, o, k) == time_callback(d, NodeAt(r, o, k), NodeAt(r, o, k + 1))

\* bounds of the cumul variable at position k: the node's range inside
\* [0, capacity]; the end index has no SetRange
CumulMin(r, o, k) == IF k <= Len(o) THEN Max(0, r.ranges[o[k]][1]) ELSE 0
CumulMax(r, o, k) ==
    IF k <= Len(o) THEN Min(r.capacity, r.ranges[o[k]][2]) ELSE r.capacity

\* the constraints of the Time dimension on a route with cumul values c:
\* c[k+1] = c[k] + transit + slack, 0 <= slack <= slack_max, ranges respected
TimeDimensionOK(d, r, o, c) ==
    /\ \A k \in 1..(Len(o) + 1) : CumulMin(r, o, k) <= c[k] /\ c[k] <= CumulMax(r, o, k)
    /\ \A k \in 1..Len(o) :
          /\ c[k + 1] - c[k] - Transit(d, r, o, k) >= 0
          /\ c[k + 1] - c[k] - Transit(d, r, o, k) <= r.slack_max

\* mutant: the slack limit of the dimension is not propagated
EarliestCumul_NoSlackLimit(d, r, o) ==
    LET n == Len(o)
        F[k \in 1..(n + 1)] ==
            IF k = 1 THEN CumulMin(r, o, 1)
            ELSE Max(CumulMin(r, o, k), F[k - 1] + Transit(d, r, o, k - 1))
    IN  [k \in 1..(n + 1) |-> F[k]]

\* mutant: every stop is left just in time for the next one, with no waiting
\* beyond what the windows force
EarliestCumul_JustInTime(d, r, o) ==
    LET n == Len(o)
        F[k \in 1..(n + 1)] ==
            IF k = 1 THEN CumulMin(r, o, 1)
            ELSE Max(CumulMin(r, o, k), F[k - 1] + Transit(d, r, o, k - 1))
        L[k \in 1..(n + 1)] ==
            IF k = n + 1 THEN F[k]
            ELSE Max(F[k], Min(CumulMax(r, o, k), L[k + 1] - Transit(d, r, o, k)))
    IN  [k \in 1..(n + 1) |-> L[k]]

\* lower bounds of the cumul variables after propagation along the route: a
\* forward pass over the transits, then a backward pass over the slack limit
EarliestCumul(d, r, o) ==
    LET n == Len(o)
        F[k \in 1..(n + 1)] ==
            IF k = 1 THEN CumulMin(r, o, 1)
            ELSE Max(CumulMin(r, o, k), F[k - 1] + Transit(d, r, o, k - 1))
        L[k \in 1..(n + 1)] ==
            IF k = n + 1 THEN F[k]
            ELSE Max(F[k], L[k + 1] - Transit(d, r, o, k) - r.slack_max)
    IN  [k \in 1..(n + 1) |-> L[k]]

\* the route admits cumul values: the propagated lower bounds fit the ranges
Feasible(d, r, o) ==
    LET c == EarliestCumul(d, r, o)
    IN  \A k \in 1..(Len(o) + 1) : c[k] <= CumulMax(r, o, k)

\* routing.SolveWithParameters: the solutions the search may commit to (the
\* order is the heuristic's choice among the feasible ones; solution.Value of
\* a cumul variable is its propagated minimum). Empty when there is none.
SolveWithParameters(d, r) ==
    { [order |-> o, cumul |-> EarliestCumul(d, r, o)] :
        o \in { q \in Routes(r) : Feasible(d, r, q) } }

-----------------------------------------------------------------------------
\* Itinerary formatting helpers

Digits == <<"0", "1", "2", "3", "4", "5", "6", "7", "8", "9">>

RECURSIVE Dec(_)
\* str(n) for n >= 0
Dec(n) == IF n < 10 THEN Digits[n + 1] ELSE Dec(n \div 10) \o Digits[(n % 10) + 1]

\* f"{n}"
FormatD(n) == IF n < 0 THEN "-" \o Dec(-n) ELSE Dec(n)

\* f"{n:02d}"
Format02d(n) == IF 0 <= n /\ n < 10 THEN "0" \o Dec(n) ELSE FormatD(n)

\* mutant: midnight is not turned into 12
seconds_to_time_str_NoMidnight(seconds_from_midnight) ==
    LET hours0  == seconds_from_midnight \div 3600
        minutes == (seconds_from_midnight % 3600) \div 60
        period  == IF hours0 >= 12 THEN "PM" ELSE "AM"
        hours   == IF hours0 > 12 THEN hours0 - 12 ELSE hours0
    IN  Format02d(hours) \o ":" \o Format02d(minutes) \o " " \o period

seconds_to_time_str(seconds_from_midnight) ==
    LET hours0  == seconds_from_midnight \div 3600
        minutes == (seconds_from_midnight % 3600) \div 60
        period  == IF hours0 >= 12 THEN "PM" ELSE "AM"
        hours1  == IF hours0 = 0 THEN 12 ELSE hours0
        hours   == IF hours1 > 12 THEN hours1 - 12 ELSE hours1
    IN  Format02d(hours) \o ":" \o Format02d(minutes) \o " " \o period

seconds_to_duration_str(total_seconds) ==
    IF total_seconds < 60 THEN FormatD(total_seconds) \o " seg"
    ELSE LET hours   == total_seconds \div 3600
             minutes == (total_seconds % 3600) \div 60
         IN  IF hours > 0
             THEN FormatD(hours) \o " h " \o Format02d(minutes) \o " min"
             ELSE FormatD(minutes) \o " min"

-----------------------------------------------------------------------------
\* The request: optimizar_ruta calling solve_vrp

\* before the model is built and before the search returns
NoRouting == [nodes |-> 0, depot |-> 0, slack_max |-> 0, capacity |-> 0, ranges |-> <<>>]
NoSolution == [order |-> <<>>, cumul |-> <<>>]

NoResponse ==
    [status |-> 0, detail |-> "", stops |-> <<>>,
     total_duration_seconds |-> 0, total_duration_str |-> ""]

Init ==
    /\ pc = "idle"
    /\ paradas = <<>>
    /\ traffic = 0
    /\ data = [time_windows |-> <<>>, service_times |-> <<>>, time_matrix |-> <<>>]
    /\ routing = NoRouting
    /\ steps = <<>>
    /\ solution = NoSolution
    /\ index = 0
    /\ last_departure_time_seconds = 0
    /\ itinerary = <<>>
    /\ total_duration_seconds = 0
    /\ raised = "none"
    /\ cause = "none"
    /\ response = NoResponse
    /\ arg = 0
    /\ out = ""

\* optimizar_ruta up to the call of solve_vrp: the start stop is put in front
\* of the stops of the user that the request names
optimizar_ruta ==
    /\ pc = "idle"
    /\ \E n \in 0..MaxStops :
         \E ps \in StoredParadas(n) :
            paradas' = <<parada_inicio>> \o ps
    /\ traffic' \in Traficos
    /\ pc' = "data"
    /\ UNCHANGED <<data, routing, steps, solution, index,
                   last_departure_time_seconds, itinerary,
                   total_duration_seconds, raised, cause, response, arg, out>>

\* a requested id is not a stop of the user: 404 before solve_vrp is called
optimizar_ruta_not_found ==
    /\ pc = "idle"
    /\ response' = [NoResponse EXCEPT !.status = 404,
                       !.detail = "Una o mas paradas no encontradas o no te pertenecen"]
    /\ pc' = "done"
    /\ UNCHANGED <<paradas, traffic, data, routing, steps, solution, index,
                   last_departure_time_seconds, itinerary,
                   total_duration_seconds, raised, cause, arg, out>>

\* section 1: the data model
solve_vrp_data ==
    /\ pc = "data"
    /\ data' = [time_windows  |-> [k \in 1..Len(paradas) |->
                                     <<time_to_seconds(paradas[k].ventana_inicio),
                                       time_to_seconds(paradas[k].ventana_fin)>>],
                service_times |-> [k \in 1..Len(paradas) |->
                                     paradas[k].tiempo_servicio_min * 60],
                time_matrix   |-> <<>>]
    /\ steps' = Append(steps, "data")
    /\ pc' = "matrix"
    /\ UNCHANGED <<paradas, traffic, routing, solution, index,
                   last_departure_time_seconds, itinerary,
                   total_duration_seconds, raised, cause, response, arg, out>>

\* section 2: the provider answers with a matrix
solve_vrp_matrix ==
    /\ pc = "matrix"
    /\ LET res == get_real_time_matrix(paradas, traffic, "ok")
       IN  data' = [data EXCEPT !.time_matrix = res.matrix]
    /\ steps' = Append(steps, "matrix")
    /\ pc' = "model"
    /\ UNCHANGED <<paradas, traffic, routing, solution, index,
                   last_departure_time_seconds, itinerary,
                   total_duration_seconds, raised, cause, response, arg, out>>

\* section 2: the provider call fails and the exception is raised again
solve_vrp_matrix_raises ==
    /\ pc = "matrix"
    /\ \E reply \in ProviderReplies \ {"ok"} :
          raised' = get_real_time_matrix(paradas, traffic, reply).raised
    /\ cause' = "provider"
    /\ steps' = Append(steps, "matrix")
    /\ pc' = "except"
    /\ UNCHANGED <<paradas, traffic, data, routing, solution, index,
                   last_departure_time_seconds, itinerary,
                   total_duration_seconds, response, arg, out>>

\* sections 3 to 5: manager, routing model, transit callback, Time dimension
\* and the window of every location
solve_vrp_model ==
    /\ pc = "model"
    /\ routing' = BuildRouting(data)
    /\ steps' = Append(steps, "model")
    /\ pc' = "search"
    /\ UNCHANGED <<paradas, traffic, data, solution, index,
                   last_departure_time_seconds, itinerary,
                   total_duration_seconds, raised, cause, response, arg, out>>

\* section 6: the search commits to a solution; the extraction starts
solve_vrp_search ==
    /\ pc = "search"
    /\ solution' \in SolveWithParameters(data, routing)
    /\ steps' = Append(steps, "search")
    /\ itinerary' = <<>>
    /\ index' = 1
    /\ last_departure_time_seconds' = 0
    /\ pc' = "extract"
    /\ UNCHANGED <<paradas, traffic, data, routing, total_duration_seconds,
                   raised, cause, response, arg, out>>

\* section 7: no solution
solve_vrp_no_solution ==
    /\ pc = "search"
    /\ SolveWithParameters(data, routing) = {}
    /\ steps' = Append(steps, "search")
    /\ raised' = "NoSolutionError"
    /\ cause' = "infeasible"
    /\ pc' = "except"
    /\ UNCHANGED <<paradas, traffic, data, routing, solution, index,
                   last_departure_time_seconds, itinerary,
                   total_duration_seconds, response, arg, out>>

IsEnd(i) == i > Len(solution.order)

\* mutant: the total is read at the last visited stop, not at the end index
TotalDuration_LastStop(sol, i) == sol.cumul[i - 1] - sol.cumul[1]

\* cumul at the index the loop stopped on minus cumul at routing.Start(0)
TotalDuration(sol, i) == sol.cumul[i] - sol.cumul[1]

\* one turn of the extraction loop. The entry keeps, beside the strings of the
\* itinerary, the loop's values in seconds they are formatted from.
solve_vrp_visit ==
    /\ pc = "extract"
    /\ ~IsEnd(index)
    /\ LET nodo_idx               == solution.order[index]
           arrival_time_seconds   == solution.cumul[index]
           service_time_seconds   == data.service_times[nodo_idx + 1]
           departure_time_seconds == arrival_time_seconds + service_time_seconds
           travel_time_seconds    == arrival_time_seconds - last_departure_time_seconds
       IN  /\ last_departure_time_seconds' = departure_time_seconds
           /\ itinerary' = Append(itinerary,
                  [parada                 |-> paradas[nodo_idx + 1],
                   nodo_idx               |-> nodo_idx,
                   arrival_time           |-> seconds_to_time_str(arrival_time_seconds),
                   departure_time         |-> seconds_to_time_str(departure_time_seconds),
                   travel_time_to_stop    |-> seconds_to_duration_str(travel_time_seconds),
                   arrival_time_seconds   |-> arrival_time_seconds,
                   departure_time_seconds |-> departure_time_seconds,
                   travel_time_seconds    |-> travel_time_seconds])
    /\ index' = index + 1
    /\ UNCHANGED <<pc, paradas, traffic, data, routing, steps, solution,
                   total_duration_seconds, raised, cause, response, arg, out>>

\* after the loop: the total duration and the returned dict
solve_vrp_return ==
    /\ pc = "extract"
    /\ IsEnd(index)
    /\ total_duration_seconds' = TotalDuration(solution, index)
    /\ pc' = "returned"
    /\ UNCHANGED <<paradas, traffic, data, routing, steps, solution, index,
                   last_departure_time_seconds, itinerary, raised, cause,
                   response, arg, out>>

\* the handler turns the dict into the OptimizeResponse
optimizar_ruta_response ==
    /\ pc = "returned"
    /\ response' =
          [status |-> 200, detail |-> "",
           stops  |-> [k \in 1..Len(itinerary) |->
                          [parada              |-> itinerary[k].parada,
                           arrival_time        |-> itinerary[k].arrival_time,
                           departure_time      |-> itinerary[k].departure_time,
                           travel_time_to_stop |-> itinerary[k].travel_time_to_stop]],
           total_duration_seconds |-> total_duration_seconds,
           total_duration_str     |-> seconds_to_duration_str(total_duration_seconds)]
    /\ pc' = "done"
    /\ UNCHANGED <<paradas, traffic, data, routing, steps, solution, index,
                   last_departure_time_seconds, itinerary,
                   total_duration_seconds, raised, cause, arg, out>>

\* except NoSolutionError: 400 with the message of the error
optimizar_ruta_400 ==
    /\ pc = "except"
    /\ raised = "NoSolutionError"
    /\ response' = [NoResponse EXCEPT !.status = 400,
                       !.detail = "No se encontro una ruta"]
    /\ pc' = "done"
    /\ UNCHANGED <<paradas, traffic, data, routing, steps, solution, index,
                   last_departure_time_seconds, itinerary,
                   total_duration_seconds, raised, cause, arg, out>>

\* except Exception: 500 "Error interno: ..."
optimizar_ruta_500 ==
    /\ pc = "except"
    /\ raised # "NoSolutionError"
    /\ response' = [NoResponse EXCEPT !.status = 500, !.detail = "Error interno"]
    /\ pc' = "done"
    /\ UNCHANGED <<paradas, traffic, data, routing, steps, solution, index,
                   last_departure_time_seconds, itinerary,
                   total_duration_seconds, raised, cause, arg, out>>

Next ==
    \/ optimizar_ruta
    \/ optimizar_ruta_not_found
    \/ solve_vrp_data
    \/ solve_vrp_matrix
    \/ solve_vrp_matrix_raises
    \/ solve_vrp_model
    \/ solve_vrp_search
    \/ solve_vrp_no_solution
    \/ solve_vrp_visit
    \/ solve_vrp_return
    \/ optimizar_ruta_response
    \/ optimizar_ruta_400
    \/ optimizar_ruta_500

Spec == Init /\ [][Next]_vars

-----------------------------------------------------------------------------
\* The formatting helpers on their own: one argument, one call

InitFmt ==
    /\ pc = "fmt"
    /\ arg \in 0..MaxSeconds
    /\ out = ""
    /\ paradas = <<>>
    /\ traffic = 0
    /\ data = [time_windows |-> <<>>, service_times |-> <<>>, time_matrix |-> <<>>]
    /\ routing = NoRouting
    /\ steps = <<>>
    /\ solution = NoSolution
    /\ index = 0
    /\ last_departure_time_seconds = 0
    /\ itinerary = <<>>
    /\ total_duration_seconds = 0
    /\ raised = "none"
    /\ cause = "none"
    /\ response = NoResponse

\* a time of day is formatted
call_seconds_to_time_str ==
    /\ pc = "fmt"
    /\ arg < Horizon
    /\ out' = seconds_to_time_str(arg)
    /\ pc' = "time_str"
    /\ UNCHANGED <<paradas, traffic, data, routing, steps, solution, index,
                   last_departure_time_seconds, itinerary,
                   total_duration_seconds, raised, cause, response, arg>>

\* a duration is formatted
call_seconds_to_duration_str ==
    /\ pc = "fmt"
    /\ out' = seconds_to_duration_str(arg)
    /\ pc' = "duration_str"
    /\ UNCHANGED <<paradas, traffic, data, routing, steps, solution, index,
                   last_departure_time_seconds, itinerary,
                   total_duration_seconds, raised, cause, response, arg>>

NextFmt ==
    \/ call_seconds_to_time_str
    \/ call_seconds_to_duration_str

SpecFmt == InitFmt /\ [][NextFmt]_vars

-----------------------------------------------------------------------------
\* Properties

\* solve_vrp returned a dict (no exception left it)
Returned == pc \in {"returned", "done"} /\ raised = "none" /\ solution # NoSolution

WindowStart(p) == time_to_seconds(p.ventana_inicio)
WindowEnd(p)   == time_to_seconds(p.ventana_fin)

\* C1 - Window satisfaction: every visit of the itinerary, the depot included,
\* arrives inside the time window of its stop.
C1_WindowSatisfaction ==
    \A k \in 1..Len(itinerary) :
        /\ WindowStart(itinerary[k].parada) <= itinerary[k].arrival_time_seconds
        /\ itinerary[k].arrival_time_seconds <= WindowEnd(itinerary[k].parada)

\* a returned itinerary of three visits, one of them arriving at the very end
\* of its window and one strictly inside
C1_Witness ==
    /\ Returned
    /\ Len(itinerary) = 3
    /\ \E k \in 1..3 :
          itinerary[k].arrival_time_seconds = WindowEnd(itinerary[k].parada)
    /\ \E k \in 1..3 :
          /\ itinerary[k].arrival_time_seconds > WindowStart(itinerary[k].parada)
          /\ itinerary[k].arrival_time_seconds < WindowEnd(itinerary[k].parada)

\* C2 - Completeness: a returned itinerary holds every input stop exactly
\* once, the depot (index 0) first.
C2_Completeness ==
    Returned =>
        /\ Len(itinerary) = Len(paradas)
        /\ itinerary[1].nodo_idx = 0
        /\ \A i \in 1..Len(paradas) :
              Cardinality({k \in 1..Len(itinerary) :
                             /\ itinerary[k].nodo_idx = i - 1
                             /\ itinerary[k].parada = paradas[i]}) = 1

\* a returned itinerary that does not visit the stops in their input order
C2_Witness ==
    /\ Returned
    /\ Len(itinerary) = 3
    /\ itinerary[2].nodo_idx = 2
    /\ itinerary[3].nodo_idx = 1

\* the input breaks a constraint of the model: a window that closes before it
\* opens, or a negative service duration
InvalidModel(ps) ==
    \E k \in 1..Len(ps) :
        \/ WindowStart(ps[k]) > WindowEnd(ps[k])
        \/ ps[k].tiempo_servicio_min < 0

\* the search step of solve_vrp has run
Searched == Len(steps) = 4

\* The claim's notion of a schedule for the order o: an open path from the
\* depot, each stop reached no later than its window closes, waiting for a
\* window to open without limit.
WaitingSchedule(d, o) ==
    LET G[k \in 1..Len(o)] ==
            IF k = 1 THEN d.time_windows[o[1] + 1][1]
            ELSE Max(d.time_windows[o[k] + 1][1],
                     G[k - 1] + time_callback(d, o[k - 1], o[k]))
    IN  \A k \in 1..Len(o) : G[k] <= d.time_windows[o[k] + 1][2]

LatestCumul(d, r, o) ==
    LET n == Len(o)
        U[k \in 1..(n + 1)] ==
            IF k = 1 THEN CumulMax(r, o, 1)
            ELSE Min(CumulMax(r, o, k),
                     U[k - 1] + Transit(d, r, o, k - 1) + r.slack_max)
        V[k \in 1..(n + 1)] ==
            IF k = n + 1 THEN U[k]
            ELSE Min(U[k], V[k + 1] - Transit(d, r, o, k))
    IN  [k \in 1..(n + 1) |-> V[k]]

\* the closed tour in the order o has a schedule inside every window, with at
\* most SlackMax of waiting per leg and every time within the Horizon
ClosedTourSchedule(d, r, o) == TimeDimensionOK(d, r, o, LatestCumul(d, r, o))

\* the search step has just ended: with the exception raised, or with the
\* solution the extraction loop is about to walk
JustSearched ==
    /\ Searched
    /\ \/ pc = "except"
       \/ pc = "extract" /\ index = 1

C4_ProviderIsolation ==
    cause = "provider" =>
        /\ steps = <<"data", "matrix">>
        /\ routing = NoRouting
        /\ solution = NoSolution
        /\ itinerary = <<>>
        /\ raised \notin {"none", "NoSolutionError"}
        /\ pc = "done" => response.status # 400

\* the handler has answered a request whose provider call timed out
C4_Witness ==
    /\ cause = "provider"
    /\ raised = "TimeoutException"
    /\ pc = "done"
    /\ Len(paradas) = 3

\* the error kind the caller can read off the response
ReportedKind(resp) ==
    CASE resp.status = 200 -> "none"
      [] resp.status = 400 -> "no_feasible_route"
      [] resp.status = 404 -> "not_found"
      [] resp.status = 500 -> "internal_error"
      [] OTHER -> "pending"

\* C5 - Error kinds do not overlap up to the caller: a provider failure is
\* reported as a provider failure, never as the internal-error kind nor as
\* the no-route kind.
C5_ErrorKindsDistinct ==
    (pc = "done" /\ cause = "provider") =>
        ReportedKind(response) \notin {"internal_error", "no_feasible_route", "none"}

\* C6 - Input validation: an invalid input (the provider having answered)
\* fails with InvalidModelError before any search, never with NoSolutionError
\* and never with an itinerary.
C6_InputValidation ==
    (InvalidModel(paradas) /\ cause # "provider") =>
        /\ ~Searched
        /\ raised # "NoSolutionError"
        /\ itinerary = <<>>
        /\ pc = "done" => raised = "InvalidModelError"

\* C7 - Monotonic schedule: departure times never decrease along the itinerary
\* and every visit, the first included, has travel_time_to_stop >= 0.
C7_MonotonicSchedule ==
    /\ \A k \in 1..Len(itinerary) : itinerary[k].travel_time_seconds >= 0
    /\ \A k \in 1..(Len(itinerary) - 1) :
          itinerary[k].departure_time_seconds <= itinerary[k + 1].departure_time_seconds

\* C8 - Depot anchoring: the first visit is the depot, at the depot's earliest
\* feasible time, and no travel is attributed to it.
C8_DepotAnchoring ==
    Len(itinerary) >= 1 =>
        /\ itinerary[1].nodo_idx = 0
        /\ itinerary[1].arrival_time_seconds =
              EarliestCumul(data, routing, solution.order)[1]
        /\ itinerary[1].travel_time_seconds = 0
        /\ itinerary[1].travel_time_to_stop = "0 seg"

TwoDigits(n) == ToString(n \div 10) \o ToString(n % 10)

\* the 12-hour clock reading of s seconds after midnight
Clock12(s) ==
    LET h24 == s \div 3600
        h12 == ((h24 + 11) % 12) + 1
        mm  == (s \div 60) % 60
    IN  TwoDigits(h12) \o ":" \o TwoDigits(mm) \o " "
           \o (IF s < 43200 THEN "AM" ELSE "PM")

\* the duration reading of d seconds
DurationText(d) ==
    IF d < 60 THEN ToString(d) \o " seg"
    ELSE IF d >= 3600
         THEN ToString(d \div 3600) \o " h " \o TwoDigits((d \div 60) % 60) \o " min"
         ELSE ToString(d \div 60) \o " min"

\* C10 - Formatting: seconds_to_time_str(s), 0 <= s <= 86399, is the 12-hour
\* clock string of s (hour 01..12, AM before noon, PM from noon on, midnight
\* "12:00 AM", noon "12:00 PM"); seconds_to_duration_str(d), d >= 0, is
\* "d seg" below a minute, "H h MM min" from an hour on, "M min" otherwise.
C10_Formatting ==
    /\ pc = "time_str" =>
          /\ out = Clock12(arg)
          /\ arg = 0 => out = "12:00 AM"
          /\ arg = 43200 => out = "12:00 PM"
          /\ Len(out) = 8
    /\ pc = "duration_str" => out = DurationText(arg)

\* noon has been formatted
C10_Witness == pc = "time_str" /\ arg = 43200 /\ out = "12:00 PM"

\* the routing model with the cumul range of one node replaced
WithRange(r, node, lo, hi) == [r EXCEPT !.ranges[node] = <<lo, hi>>]

\* waiting on the leg from visit k to visit k + 1 of the itinerary
WaitBefore(k) ==
    itinerary[k + 1].arrival_time_seconds
      - itinerary[k].departure_time_seconds
      - data.time_matrix[itinerary[k].nodo_idx + 1][itinerary[k + 1].nodo_idx + 1]

\* every arrival of the itinerary is the earliest feasible one for its node
\* under the committed order: the order has a schedule arriving then, and
\* none arriving earlier
EarliestArrivals ==
    \A k \in 1..Len(itinerary) :
        LET a    == itinerary[k].arrival_time_seconds
            node == itinerary[k].nodo_idx
            lo   == routing.ranges[node][1]
        IN  /\ ClosedTourSchedule(data, WithRange(routing, node, a, a), solution.order)
            /\ ~ClosedTourSchedule(data, WithRange(routing, node, lo, a - 1),
                                   solution.order)

\* upper bounds of the cumul variables when leg k may wait at most cap[k]
LatestCumulCapped(d, r, o, cap) ==
    LET n == Len(o)
        U[k \in 1..(n + 1)] ==
            IF k = 1 THEN CumulMax(r, o, 1)
            ELSE Min(CumulMax(r, o, k),
                     U[k - 1] + Transit(d, r, o, k - 1) + cap[k - 1])
        V[k \in 1..(n + 1)] ==
            IF k = n + 1 THEN U[k]
            ELSE Min(U[k], V[k + 1] - Transit(d, r, o, k))
    IN  [k \in 1..(n + 1) |-> V[k]]

\* the order o has a schedule in which leg k waits at most cap[k]
ScheduleWithCaps(d, r, o, cap) ==
    LET c == LatestCumulCapped(d, r, o, cap)
    IN  /\ \A k \in 1..(Len(o) + 1) :
              CumulMin(r, o, k) <= c[k] /\ c[k] <= CumulMax(r, o, k)
        /\ \A k \in 1..Len(o) :
              /\ c[k + 1] - c[k] - Transit(d, r, o, k) >= 0
              /\ c[k + 1] - c[k] - Transit(d, r, o, k) <= cap[k]

\* no leg of the itinerary waits longer than the committed order requires:
\* the order has no schedule that waits less on that leg
NoNeedlessWait ==
    \A k \in 1..(Len(itinerary) - 1) :
        WaitBefore(k) > 0 =>
            ~ScheduleWithCaps(data, routing, solution.order,
                 [j \in 1..Len(solution.order) |->
                     IF j = k THEN WaitBefore(k) - 1 ELSE routing.slack_max])

C12_LegTiming ==
    Returned =>
        /\ \A k \in 1..(Len(itinerary) - 1) :
              /\ WaitBefore(k) >= 0
              /\ WaitBefore(k) <= 900
        /\ \A k \in 1..Len(itinerary) :
              /\ itinerary[k].arrival_time_seconds <= 86400
              /\ itinerary[k].departure_time_seconds <= 86400

\* a returned itinerary of three visits with the full 900 s of waiting on one
\* leg and none on the other
C12_Witness ==
    /\ Returned
    /\ Len(itinerary) = 3
    /\ WaitBefore(1) = 900
    /\ WaitBefore(2) = 0
    /\ itinerary[3].departure_time_seconds > itinerary[3].arrival_time_seconds

====
